---- MODULE Spec2Model ----
(***************************************************************************)
(* A model of db_tools.etl and db_tools.etl.redcap: the compilation of a   *)
(* REDCap data dictionary into column specifications (digest_ddict,        *)
(* RedCapColumnInfo and the column factories), the recoders and validators *)
(* the factories build, the failing-values diagnostic (get_failed_values)  *)
(* and the checkbox reshaper (build_checkbox_df, process_checkboxes).      *)
(*                                                                         *)
(* Python strings that the code takes apart (names, choices strings, codes *)
(* and labels) are sequences of one-character strings.  Python values that *)
(* travel through dictionaries and series are records [t, v]: the Python   *)
(* type and the text of the value.  Dictionaries are sequences of          *)
(* <<key, value>> pairs in insertion order.                                *)
(***************************************************************************)
EXTENDS Integers, Sequences, FiniteSets, TLC

VARIABLES
    call,       \* which entry point has run ("idle" before any)
    arg,        \* the arguments the entry point was called with
    ret,        \* what the call returned, or the exception it raised
    log         \* the warnings emitted through log.warn, in order

vars == <<call, arg, ret, log>>

(***************************************************************************)
(* Bounds of the model.                                                    *)
(***************************************************************************)
MaxRows == 2        \* rows of a dictionary table
MaxSeries == 2      \* values of a raw series
MaxSubjects == 2    \* rows of a raw data table
MaxFrame == 1       \* rows of a table given to a transform

(***************************************************************************)
(* Python values.                                                          *)
(***************************************************************************)
Str(s) == [t |-> "str", v |-> s]
PyInt(s) == [t |-> "int", v |-> s]
\* np.nan, the one object the mappings below have as a key
NaN == [t |-> "float", v |-> <<"nan">>]
\* a NaN float that is another object than np.nan: what a cell that comes
\* out of a float64 column is.  It equals nothing, itself included, so a
\* dict or a set that holds np.nan does not find it.
FloatNaN == [t |-> "float", v |-> <<"nan">>, id |-> "float('nan')"]
None == [t |-> "NoneType", v |-> <<"None">>]
True == [t |-> "bool", v |-> <<"True">>]
False == [t |-> "bool", v |-> <<"False">>]

\* np.nan in a cell that is otherwise a word taken whole (field type,
\* validation kind): the cell is only ever compared or used as a key.
nan == "nan"
\* such a cell holding a NaN float that is another object than np.nan
float_nan == "float('nan')"

\* str(value), as the fallback of a failed cast takes it
str(x) == [t |-> "str", v |-> x.v]

\* pd.isna(x)
isna(x) == x = NaN \/ x = FloatNaN \/ x = None

(***************************************************************************)
(* Python str methods, on sequences of characters.  A character is the     *)
(* one-character string for a printable ASCII character and for tab, line  *)
(* feed, carriage return and form feed ("\t", "\n", "\r", "\f"), and the   *)
(* string "U+" with the four hexadecimal digits of its code point for any  *)
(* other: "U+00C9" is the one character LATIN CAPITAL LETTER E WITH ACUTE. *)
(* Strings are made of the characters of ISO 8859-1 (U+0000 to U+00FF) and *)
(* of the space characters of Unicode.                                     *)
(***************************************************************************)
\* the characters str.strip() removes: those str.isspace() is true of
Whitespace == {" ", "\t", "\n", "\r", "\f", "U+000B", "U+001C", "U+001D",
               "U+001E", "U+001F", "U+0085", "U+00A0", "U+1680", "U+2000",
               "U+2001", "U+2002", "U+2003", "U+2004", "U+2005", "U+2006",
               "U+2007", "U+2008", "U+2009", "U+200A", "U+2028", "U+2029",
               "U+202F", "U+205F", "U+3000"}

RECURSIVE lstrip(_)
lstrip(s) == IF s # <<>> /\ Head(s) \in Whitespace THEN lstrip(Tail(s)) ELSE s

RECURSIVE rstrip(_)
rstrip(s) ==
    IF s # <<>> /\ s[Len(s)] \in Whitespace
    THEN rstrip(SubSeq(s, 1, Len(s) - 1))
    ELSE s

strip(s) == rstrip(lstrip(s))

startswith(s, prefix) ==
    Len(prefix) <= Len(s) /\ SubSeq(s, 1, Len(prefix)) = prefix

\* str.find, 1-based; 0 when sub does not occur in s
find(s, sub) ==
    LET hits == {i \in 1..(Len(s) - Len(sub) + 1) :
                    SubSeq(s, i, i + Len(sub) - 1) = sub}
    IN IF hits = {} THEN 0 ELSE CHOOSE i \in hits : \A j \in hits : i <= j

\* s.split(sep): the pieces between the occurrences of sep, found left to right
RECURSIVE split(_, _)
split(s, sep) ==
    LET i == find(s, sep)
    IN IF i = 0
       THEN <<s>>
       ELSE <<SubSeq(s, 1, i - 1)>> \o split(SubSeq(s, i + Len(sep), Len(s)), sep)

\* s.split(sep, maxsplit=1)
split_once(s, sep) ==
    LET i == find(s, sep)
    IN IF i = 0
       THEN <<s>>
       ELSE <<SubSeq(s, 1, i - 1), SubSeq(s, i + Len(sep), Len(s))>>

\* s.replace(old, new) for a one-character old
replace_char(s, old, new) == [i \in 1..Len(s) |-> IF s[i] = old THEN new ELSE s[i]]

\* the characters str.lower() changes, A to Z and the capitals of U+00C0 to
\* U+00DE, and below what it changes each to
UpperCase == <<"A", "B", "C", "D", "E", "F", "G", "H", "I", "J", "K", "L",
               "M", "N", "O", "P", "Q", "R", "S", "T", "U", "V", "W", "X",
               "Y", "Z", "U+00C0", "U+00C1", "U+00C2", "U+00C3", "U+00C4",
               "U+00C5", "U+00C6", "U+00C7", "U+00C8", "U+00C9", "U+00CA",
               "U+00CB", "U+00CC", "U+00CD", "U+00CE", "U+00CF", "U+00D0",
               "U+00D1", "U+00D2", "U+00D3", "U+00D4", "U+00D5", "U+00D6",
               "U+00D8", "U+00D9", "U+00DA", "U+00DB", "U+00DC", "U+00DD",
               "U+00DE">>
LowerCase == <<"a", "b", "c", "d", "e", "f", "g", "h", "i", "j", "k", "l",
               "m", "n", "o", "p", "q", "r", "s", "t", "u", "v", "w", "x",
               "y", "z", "U+00E0", "U+00E1", "U+00E2", "U+00E3", "U+00E4",
               "U+00E5", "U+00E6", "U+00E7", "U+00E8", "U+00E9", "U+00EA",
               "U+00EB", "U+00EC", "U+00ED", "U+00EE", "U+00EF", "U+00F0",
               "U+00F1", "U+00F2", "U+00F3", "U+00F4", "U+00F5", "U+00F6",
               "U+00F8", "U+00F9", "U+00FA", "U+00FB", "U+00FC", "U+00FD",
               "U+00FE">>

lower_char(c) ==
    IF \E i \in 1..Len(UpperCase) : UpperCase[i] = c
    THEN LowerCase[CHOOSE i \in 1..Len(UpperCase) : UpperCase[i] = c]
    ELSE c

lower(s) == [i \in 1..Len(s) |-> lower_char(s[i])]

(***************************************************************************)
(* Python dict, as the sequence of its <<key, value>> items.               *)
(***************************************************************************)
dict_keys(d) == [i \in 1..Len(d) |-> d[i][1]]
dict_values(d) == [i \in 1..Len(d) |-> d[i][2]]
dict_has(d, k) == \E i \in 1..Len(d) : d[i][1] = k
dict_get(d, k) == d[CHOOSE i \in 1..Len(d) : d[i][1] = k][2]

\* d[k] = v: a key already present keeps its place and takes the new value
dict_set(d, k, v) ==
    IF dict_has(d, k)
    THEN [i \in 1..Len(d) |-> IF d[i][1] = k THEN <<k, v>> ELSE d[i]]
    ELSE Append(d, <<k, v>>)

\* d.update(items)
RECURSIVE dict_update(_, _)
dict_update(d, items) ==
    IF items = <<>>
    THEN d
    ELSE dict_update(dict_set(d, Head(items)[1], Head(items)[2]), Tail(items))

\* the distinct elements of a sequence
Range(s) == {s[i] : i \in 1..Len(s)}

\* F(x), with x worked out once before F uses it
Once(F(_), x) == CHOOSE r \in {F(v) : v \in {x}} : TRUE

\* s.replace(old, new), occurrences of old found left to right
RECURSIVE replace(_, _, _)
replace(s, old, new) ==
    LET i == find(s, old)
    IN IF i = 0
       THEN s
       ELSE SubSeq(s, 1, i - 1) \o new
            \o replace(SubSeq(s, i + Len(old), Len(s)), old, new)

(***************************************************************************)
(* ccs_labels_to_mapper: the "Choices, Calculations, OR Slider Labels"     *)
(* string of a dictionary row as a dict from option code to label.         *)
(* The result is [none |-> TRUE] for Python's None.                        *)
(***************************************************************************)
FootnoteMarker == <<"<", "b", "r", ">", "<", "s", "u", "p", ">">>
SplitHere == <<"S", "P", "L", "I", "T", "_", "H", "E", "R", "E">>

clean_key(key) == lower(replace_char(key, "-", "_"))

clean_value(value) == strip(split(replace(value, FootnoteMarker, SplitHere), SplitHere)[1])

NoMapper == [none |-> TRUE, items |-> <<>>]

ccs_labels_to_mapper(series) ==
    LET labels == series.choices
    IN IF labels.t # "str"
       THEN NoMapper                     \* AttributeError: no .split on a float
       ELSE
         LET pieces == split(labels.v, <<"|">>)
             choices == [i \in 1..Len(pieces) |-> strip(pieces[i])]
             split_choices == [i \in 1..Len(choices) |-> split_once(choices[i], <<",">>)]
             stripped_split_choices ==
                 [i \in 1..Len(choices) |->
                     [j \in 1..Len(split_choices[i]) |-> strip(split_choices[i][j])]]
         IN IF \E i \in 1..Len(choices) : Len(stripped_split_choices[i]) # 2
            THEN NoMapper                \* ValueError: cannot unpack key, val
            ELSE [none |-> FALSE,
                  items |-> dict_update(<<>>,
                      [i \in 1..Len(choices) |->
                          <<Str(clean_key(stripped_split_choices[i][1])),
                            Str(clean_value(stripped_split_choices[i][2]))>>])]

(***************************************************************************)
(* Column objects.  A validator or recoder is the name of the function and *)
(* the values its closure holds.                                           *)
(***************************************************************************)
Fn(name, env) == [fn |-> name, env |-> env]

Column(name, dtype, validators, recoders) ==
    [cls |-> "Column", name |-> name, dtype |-> dtype, unique |-> FALSE,
     validators |-> validators, recoders |-> recoders]

CompoundColumn(input_columns, output_columns, column_transform) ==
    [cls |-> "CompoundColumn", input_columns |-> input_columns,
     output_columns |-> output_columns, column_transform |-> column_transform]

\* what a factory hands back: the column, or the exception it raised
Built(column) == [raised |-> "", column |-> column]
Raised(exc) == [raised |-> exc, column |-> <<>>]

\* the separator between a checkbox field's name and an option's code
Sep == <<"_", "_", "_">>

(***************************************************************************)
(* db_tools.etl.recast: the casts of a dictionary bound.  Each either      *)
(* yields the typed value or fails with ValueError/TypeError.              *)
(***************************************************************************)
Digits == {"0", "1", "2", "3", "4", "5", "6", "7", "8", "9"}

is_digits(s) == s # <<>> /\ \A i \in 1..Len(s) : s[i] \in Digits

\* the shape of the text, piece by piece between the separator characters
has_shape(s, sep, n) ==
    LET parts == split(s, <<sep>>)
    IN Len(parts) = n /\ \A i \in 1..n : is_digits(parts[i])

recast_fails(func, value) ==
    CASE func = "as_string" -> FALSE
      [] func = "as_integer" -> ~(value.t = "str" /\ is_digits(value.v))
      [] func = "as_float" ->
            ~(\/ value.t = "float"
              \/ value.t = "str" /\ (is_digits(value.v) \/ has_shape(value.v, ".", 2)))
      [] func = "as_date" -> ~(value.t = "str" /\ has_shape(value.v, "-", 3))
      [] func = "as_time" -> ~(value.t = "str" /\ has_shape(value.v, ":", 2))

recast_type(func) ==
    CASE func = "as_string" -> "str"
      [] func = "as_integer" -> "int"
      [] func = "as_float" -> "float"
      [] func = "as_date" -> "date"
      [] func = "as_time" -> "time"

recast(func, value) == [t |-> recast_type(func), v |-> value.v]

(***************************************************************************)
(* RedCapColumnInfo._cast_validation_limits                                *)
(***************************************************************************)
\* a fallback that emits no warning
robust_casting_func_silent(func, value) ==
    IF recast_fails(func, value)
    THEN [value |-> str(value), warned |-> <<>>]
    ELSE [value |-> recast(func, value), warned |-> <<>>]

\* robust_casting_func(value): the cast, or on ValueError/TypeError a warning
\* and str(value).  Gives the value and the warnings emitted.
robust_casting_func(func, value) ==
    IF recast_fails(func, value)
    THEN [value |-> str(value), warned |-> <<[value |-> value, func |-> func]>>]
    ELSE [value |-> recast(func, value), warned |-> <<>>]

cast_map ==
    << <<"time", "as_time">>,
       <<"alpha_only", "as_string">>,
       <<"date_ymd", "as_date">>,
       <<"date_mdy", "as_date">>,
       <<"date_dmy", "as_date">>,
       <<"integer", "as_integer">>,
       <<"number", "as_float">>,
       <<"number_1dp", "as_float">>,
       <<"number_4dp", "as_float">>,
       <<nan, "as_string">> >>

\* gives [raised, validation_min, validation_max, warned]
cast_validation_limits(self) ==
    IF ~dict_has(cast_map, self.validation_kind)
    THEN [raised |-> "KeyError", validation_min |-> self.validation_min,
          validation_max |-> self.validation_max, warned |-> <<>>]
    ELSE LET recast_func == dict_get(cast_map, self.validation_kind)
             lo == robust_casting_func(recast_func, self.validation_min)
             hi == robust_casting_func(recast_func, self.validation_max)
         IN [raised |-> "", validation_min |-> lo.value,
             validation_max |-> hi.value, warned |-> lo.warned \o hi.warned]

(***************************************************************************)
(* The column factories.                                                   *)
(***************************************************************************)
checkbox_mapping == << <<PyInt(<<"0">>), False>>, <<PyInt(<<"1">>), True>>, <<None, NaN>> >>

\* checkbox_column_factory.input_column(col_n)
input_column(column_info, col_n) ==
    Column(column_info.name \o Sep \o col_n.v,
           {"bool", "float"},
           <<Fn("checkbox.valid_values", <<NaN, True, False>>)>>,
           <<Fn("common.recode.to_int_or_nan", <<>>),
             Fn("checkbox.translate_column", checkbox_mapping)>>)

\* checkbox_column_factory.output_column(col_n)
output_column(column_info, col_n) ==
    Column(column_info.name \o Sep \o dict_get(column_info.options_labels.items, col_n).v,
           {"bool", "float"},
           <<Fn("checkbox.valid_values", <<NaN, True, False>>)>>,
           <<>>)

checkbox_column_factory(column_info) ==
    IF column_info.options_labels.none
    THEN Raised("AttributeError")        \* None has no .keys()
    ELSE LET keys == dict_keys(column_info.options_labels.items)
         IN Built(CompoundColumn(
                [i \in 1..Len(keys) |-> input_column(column_info, keys[i])],
                [i \in 1..Len(keys) |-> output_column(column_info, keys[i])],
                Fn("checkbox.transformation",
                   [name |-> column_info.name,
                    options_labels |-> column_info.options_labels.items])))

\* a validator over the option codes instead of the labels
build_column_codes(name, labels, label_mapper) ==
    Column(name,
           {"str", "NoneType"},
           <<Fn("radio_dropdown.valid_values", dict_keys(label_mapper) \o <<None>>)>>,
           <<Fn("radio_dropdown.translate_column", label_mapper)>>)

\* radio_dropdown_column_factory.build_column(name, labels)
build_column(name, labels, label_mapper) ==
    Column(name,
           {"str", "NoneType"},
           <<Fn("radio_dropdown.valid_values", labels \o <<None>>)>>,
           <<Fn("radio_dropdown.translate_column", label_mapper)>>)

radio_dropdown_column_factory(column_info) ==
    IF column_info.options_labels.none
    THEN Raised("TypeError")             \* dict.update(None)
    ELSE LET label_mapper ==
                 dict_update(dict_update(<<>>, column_info.options_labels.items),
                             << <<NaN, None>> >>)
         IN Built(build_column(column_info.name, dict_values(label_mapper), label_mapper))

value_mapper ==
    << <<Str(<<"0">>), Str(<<"N", "O">>)>>,
       <<Str(<<"1">>), Str(<<"Y", "E", "S">>)>>,
       <<NaN, None>> >>

yesno_column_factory(column_info) ==
    Built(Column(column_info.name,
                 {"str", "NoneType"},
                 <<Fn("yesno.valid_values", dict_values(value_mapper))>>,
                 <<Fn("yesno.translate_column", value_mapper)>>))

text_validators ==
    << <<"time", <<Fn("common.validate.istime", <<>>)>> >>,
       <<"alpha_only", <<Fn("common.validate.isalpha", <<>>)>> >>,
       <<"date_ymd", <<Fn("validate.date_format", <<>>)>> >>,
       <<"date_mdy", <<Fn("validate.date_format", <<>>)>> >>,
       <<"date_dmy", <<Fn("validate.date_format", <<>>)>> >>,
       <<"integer", <<>> >>,
       <<"number", <<>> >>,
       <<"number_1dp", <<>> >>,
       <<"number_4dp", <<>> >>,
       <<nan, <<>> >> >>

text_recoders ==
    << <<"time", <<Fn("common.recode.to_hour_minute", <<>>)>> >>,
       <<"alpha_only", <<Fn("common.recode.nan_to_none", <<>>)>> >>,
       <<"date_ymd", <<Fn("common.recode.nan_to_none", <<>>)>> >>,
       <<"date_mdy", <<Fn("common.recode.nan_to_none", <<>>)>> >>,
       <<"date_dmy", <<Fn("common.recode.nan_to_none", <<>>)>> >>,
       <<"integer", <<Fn("common.recode.nan_to_none", <<>>)>> >>,
       <<"number", <<Fn("common.recode.nan_to_none", <<>>)>> >>,
       <<"number_1dp", <<Fn("common.recode.nan_to_none", <<>>)>> >>,
       <<"number_4dp", <<Fn("common.recode.nan_to_none", <<>>)>> >>,
       <<nan, <<Fn("common.recode.nan_to_none", <<>>)>> >> >>

text_dtype ==
    << <<"time", {"time", "NaTType"}>>,
       <<"alpha_only", {"str", "NoneType"}>>,
       <<"date_ymd", {"str", "NoneType"}>>,
       <<"date_mdy", {"str", "NoneType"}>>,
       <<"date_dmy", {"str", "NoneType"}>>,
       <<"integer", {"int", "NoneType"}>>,
       <<"number", {"float", "NoneType"}>>,
       <<"number_1dp", {"float", "NoneType"}>>,
       <<"number_4dp", {"float", "NoneType"}>>,
       <<nan, {"str", "NoneType"}>> >>

text_column_factory(column_info) ==
    IF ~dict_has(text_dtype, column_info.validation_kind)
    THEN Raised("KeyError")
    ELSE Built(Column(column_info.name,
                      dict_get(text_dtype, column_info.validation_kind),
                      dict_get(text_validators, column_info.validation_kind),
                      dict_get(text_recoders, column_info.validation_kind)))

calc_column_factory(column_info) ==
    Built(Column(column_info.name,
                 {"float", "NoneType"},
                 <<Fn("validate.valid_float", <<>>)>>,
                 <<Fn("common.recode.nan_to_none", <<>>)>>))

(***************************************************************************)
(* RedCapColumnInfo                                                        *)
(***************************************************************************)
fieldtype_to_factory == {"radio", "text", "checkbox", "dropdown", "yesno", "calc"}

\* RedCapColumnInfo._spawn_column_object
spawn_column_object(self) ==
    CASE self.field_type = "radio" -> radio_dropdown_column_factory(self)
      [] self.field_type = "text" -> text_column_factory(self)
      [] self.field_type = "checkbox" -> checkbox_column_factory(self)
      [] self.field_type = "dropdown" -> radio_dropdown_column_factory(self)
      [] self.field_type = "yesno" -> yesno_column_factory(self)
      [] self.field_type = "calc" -> calc_column_factory(self)
      [] OTHER -> Raised("KeyError")

\* RedCapColumnInfo.__init__(ddict_col): gives [raised, info, warned], info
\* being the object as far as the constructor got.
RedCapColumnInfo(ddict_col) ==
    LET init(col) ==
            [name |-> col.name,
             form_name |-> col.form_name,
             section_header |-> col.section_header,
             field_type |-> col.field_type,
             field_label |-> col.field_label,
             options_labels |-> ccs_labels_to_mapper(col),
             validation_kind |-> col.validation_kind,
             validation_min |-> col.validation_min,
             validation_max |-> col.validation_max,
             column_object |-> <<>>]
        spawn(self) ==
            LET finish(spawned) ==
                    IF spawned.raised # ""
                    THEN [raised |-> spawned.raised, info |-> self.info,
                          warned |-> self.warned]
                    ELSE [raised |-> "",
                          info |-> [self.info EXCEPT !.column_object = spawned.column],
                          warned |-> self.warned]
            IN Once(finish, spawn_column_object(self.info))
        cast(self) ==
            LET finish(limits) ==
                    IF limits.raised # ""
                    THEN [raised |-> limits.raised, info |-> self, warned |-> <<>>]
                    ELSE spawn([info |-> [self EXCEPT
                                    !.validation_min = limits.validation_min,
                                    !.validation_max = limits.validation_max],
                                warned |-> limits.warned])
            IN Once(finish, cast_validation_limits(self))
    IN Once(cast, Once(init, ddict_col))

(***************************************************************************)
(* digest_ddict(ddict): ddict is the sequence of the table's columns, one  *)
(* per field.  Gives [raised, schema, warned]; schema is the OrderedDict.  *)
(***************************************************************************)
\* a compiler that forgets to drop the descriptive rows
drop_descriptive_keep_all(ddict) == ddict

\* ddict.T[ddict.T["Field Type"] != 'descriptive'].T
RECURSIVE drop_descriptive(_)
drop_descriptive(ddict) ==
    IF ddict = <<>>
    THEN <<>>
    ELSE (IF Head(ddict).field_type # "descriptive" THEN <<Head(ddict)>> ELSE <<>>)
         \o drop_descriptive(Tail(ddict))

\* ddict[col_name] is one column (a Series) only when no other column has
\* the name; otherwise it is a DataFrame, which has no .name
is_series(ddict, col_name) ==
    Cardinality({i \in 1..Len(ddict) : ddict[i].name = col_name}) = 1

RECURSIVE digest_columns(_, _, _, _)
digest_columns(ddict, columns, redcap_info_objs, warned) ==
    IF columns = <<>>
    THEN [raised |-> "", schema |-> redcap_info_objs, warned |-> warned]
    ELSE IF ~is_series(ddict, Head(columns).name)
    THEN [raised |-> "AttributeError", schema |-> <<>>, warned |-> warned]
    ELSE LET insert(info_obj) ==
                 IF info_obj.raised # ""
                 THEN [raised |-> info_obj.raised, schema |-> <<>>,
                       warned |-> warned \o info_obj.warned]
                 ELSE digest_columns(ddict, Tail(columns),
                          dict_set(redcap_info_objs, info_obj.info.name, info_obj.info),
                          warned \o info_obj.warned)
         IN Once(insert, RedCapColumnInfo(Head(columns)))

digest_ddict(ddict) ==
    LET digest(kept) == digest_columns(kept, kept, <<>>, <<>>)
    IN Once(digest, drop_descriptive(ddict))

(***************************************************************************)
(* The recoders and validators the factories close over.                   *)
(***************************************************************************)
\* Python's == and hash on keys: True is 1 and False is 0.  A key is found
\* when it is the same object or an equal one: np.nan is found as a key
\* only when the value looked up is np.nan itself, and FloatNaN, which no
\* mapping holds, never is.
py_key(x) ==
    IF x = True THEN PyInt(<<"1">>) ELSE IF x = False THEN PyInt(<<"0">>) ELSE x

mapping_has(mapping, x) == \E i \in 1..Len(mapping) : py_key(mapping[i][1]) = py_key(x)

mapping_get(mapping, x) ==
    mapping[CHOOSE i \in 1..Len(mapping) : py_key(mapping[i][1]) = py_key(x)][2]

Returned(value) == [raised |-> "", value |-> value]
KeyError == [raised |-> "KeyError", value |-> <<>>]

\* radio_dropdown_column_factory ... translate_column.rcode(x): label_mapper[x]
radio_dropdown_rcode(label_mapper, x) ==
    IF mapping_has(label_mapper, x) THEN Returned(mapping_get(label_mapper, x)) ELSE KeyError

\* yesno_column_factory.translate_column.rcode(x): value_mapper[x]
yesno_rcode(mapper, x) ==
    IF mapping_has(mapper, x) THEN Returned(mapping_get(mapper, x)) ELSE KeyError

\* checkbox_column_factory.input_column.translate_column.rcode(x)
checkbox_rcode(mapping, x) ==
    IF mapping_has(mapping, x)
    THEN Returned(mapping_get(mapping, x))
    ELSE IF isna(x) THEN Returned(NaN) ELSE KeyError

\* common.recode.nan_to_none: a null-like value becomes None
nan_to_none(x) == IF isna(x) THEN None ELSE x

\* the recoders whose code or contract is known
ModelledRecoders == {"radio_dropdown.translate_column", "yesno.translate_column",
                     "checkbox.translate_column", "common.recode.nan_to_none"}

\* one call of a recoder's function on one value
rcode(recoder, x) ==
    CASE recoder.fn = "radio_dropdown.translate_column" -> radio_dropdown_rcode(recoder.env, x)
      [] recoder.fn = "yesno.translate_column" -> yesno_rcode(recoder.env, x)
      [] recoder.fn = "checkbox.translate_column" -> checkbox_rcode(recoder.env, x)
      [] recoder.fn = "common.recode.nan_to_none" -> Returned(nan_to_none(x))

\* is_subset(x, ref_set) for a scalar x
is_subset(x, ref_set) == \E i \in 1..Len(ref_set) : py_key(ref_set[i]) = py_key(x)

\* valid_values(series), one value at a time
valid_values(validator, x) == is_subset(x, validator.env)

\* series.apply(rcode): the values in order, up to the first that raises.
\* Gives [raised, values, calls]; calls are the values rcode was called on.
translate_column(recoder, series) ==
    LET bad == {i \in 1..Len(series) : rcode(recoder, series[i]).raised # ""}
        first == IF bad = {} THEN 0 ELSE CHOOSE i \in bad : \A j \in bad : i <= j
        called == IF first = 0 THEN Len(series) ELSE first
    IN [raised |-> IF first = 0 THEN "" ELSE rcode(recoder, series[first]).raised,
        values |-> IF first = 0
                   THEN [i \in 1..Len(series) |-> rcode(recoder, series[i]).value]
                   ELSE <<>>,
        calls |-> [i \in 1..called |->
                      [step |-> "recode", fn |-> recoder.fn, x |-> series[i]]]]

(***************************************************************************)
(* table_enforcer's Column.recode and Column.validate, as the repository   *)
(* relies on them: recoders run in the declared order over the whole       *)
(* series; a row fails when a validator or the dtype check rejects it.     *)
(***************************************************************************)
RECURSIVE run_recoders(_, _, _)
run_recoders(recoders, data, calls) ==
    IF recoders = <<>>
    THEN [raised |-> "", values |-> data, calls |-> calls]
    ELSE LET out == translate_column(Head(recoders), data)
         IN IF out.raised # ""
            THEN [raised |-> "RecodingError", values |-> <<>>, calls |-> calls \o out.calls]
            ELSE run_recoders(Tail(recoders), out.values, calls \o out.calls)

Column_recode(col, series) == run_recoders(col.recoders, series, <<>>)

validator_calls(validators, data) ==
    [k \in 1..(Len(validators) * Len(data)) |->
        [step |-> "validate",
         fn |-> validators[((k - 1) \div Len(data)) + 1].fn,
         x |-> data[((k - 1) % Len(data)) + 1]]]

row_is_valid(col, x) ==
    /\ \A i \in 1..Len(col.validators) : valid_values(col.validators[i], x)
    /\ x.t \in col.dtype

\* Column.validate(table, failed_only=True): the index of the failing rows
Column_validate_failed(col, data) == {i \in 1..Len(data) : ~row_is_valid(col, data[i])}

(***************************************************************************)
(* get_failed_values(df, col): df is the column df[col.name], as [index,   *)
(* values]: the row labels and the raw values.  Gives [raised, failed,     *)
(* calls]: failed is the series returned, the <<label, raw value>> of its  *)
(* rows; calls are the recoder and validator calls made, in order.         *)
(***************************************************************************)
\* series.iloc[labels]: the labels taken as positions, counted from 0 and,
\* when negative, from the end; one outside the series is an IndexError.
\* Gives [raised, rows].
iloc(df, labels) ==
    LET n == Len(df.values)
    IN IF \E k \in 1..Len(labels) : labels[k] >= n \/ labels[k] < 0 - n
       THEN [raised |-> "IndexError", rows |-> <<>>]
       ELSE [raised |-> "",
             rows |-> [k \in 1..Len(labels) |->
                          LET at == IF labels[k] >= 0 THEN labels[k] + 1
                                    ELSE n + labels[k] + 1
                          IN <<df.index[at], df.values[at]>>]]

get_failed_values(df, col) ==
    LET recoded == Column_recode(col, df.values)
        failing == Column_validate_failed(col, recoded.values)
        failed_index == [k \in 1..Cardinality(failing) |->
                            df.index[CHOOSE i \in failing :
                                Cardinality({j \in failing : j <= i}) = k]]
        taken == iloc(df, failed_index)
    IN IF recoded.raised # ""
       THEN [raised |-> recoded.raised, failed |-> <<>>, calls |-> recoded.calls]
       ELSE [raised |-> taken.raised,
             failed |-> taken.rows,
             calls |-> recoded.calls \o validator_calls(col.validators, recoded.values)]

(***************************************************************************)
(* Data frames: [columns, rows], the column names in order and each row's  *)
(* cells in the order of the columns.                                      *)
(***************************************************************************)
\* [i for i, x in enumerate(s) if x in wanted], from position i on
RECURSIVE positions_from(_, _, _)
positions_from(names, wanted, i) ==
    IF i > Len(names)
    THEN <<>>
    ELSE (IF names[i] \in wanted THEN <<i>> ELSE <<>>) \o positions_from(names, wanted, i + 1)

\* df[names]: the named columns, in the order of names
take_columns(df, at) ==
    [columns |-> [k \in 1..Len(at) |-> df.columns[at[k]]],
     rows |-> [r \in 1..Len(df.rows) |-> [k \in 1..Len(at) |-> df.rows[r][at[k]]]]]

position_of(names, name) == CHOOSE i \in 1..Len(names) : names[i] = name

RECURSIVE keep_rows(_, _)
keep_rows(rows, keep) ==
    IF rows = <<>>
    THEN <<>>
    ELSE (IF Head(rows) \in keep THEN <<Head(rows)>> ELSE <<>>) \o keep_rows(Tail(rows), keep)

\* df.dropna(): the rows without a missing cell
dropna(df) ==
    [columns |-> df.columns,
     rows |-> keep_rows(df.rows,
                 {row \in Range(df.rows) : \A k \in 1..Len(row) : ~isna(row[k])})]

\* df.rename(columns=mapper)
rename(df, mapper) ==
    [columns |-> [k \in 1..Len(df.columns) |->
                     IF dict_has(mapper, df.columns[k])
                     THEN dict_get(mapper, df.columns[k])
                     ELSE df.columns[k]],
     rows |-> df.rows]

(***************************************************************************)
(* checkbox_column_factory.transformation: func(df)                        *)
(***************************************************************************)
transformation(env, df) ==
    LET prefix == env.name \o Sep
        column_names == positions_from(df.columns,
                            {c \in Range(df.columns) : startswith(c, prefix)}, 1)
        rename_cols == dict_update(<<>>,
            [i \in 1..Len(env.options_labels) |->
                <<env.name \o Sep \o env.options_labels[i][1].v,
                  env.name \o Sep \o env.options_labels[i][2].v>>])
    IN rename(take_columns(df, column_names), rename_cols)

(***************************************************************************)
(* build_checkbox_df and process_checkboxes                                *)
(***************************************************************************)
\* the order sort_values puts subject ids in
SubjectIds == <<Str(<<"s", "1">>), Str(<<"s", "2">>)>>
id_rank(id) == CHOOSE i \in 1..Len(SubjectIds) : SubjectIds[i] = id

\* df.melt(id_vars=[id], var_name=..., value_name='answer'): column by
\* column, and within a column row by row; each row is <<id, variable, answer>>
melt(df) ==
    LET n == Len(df.rows)
        m == Len(df.columns) - 1
    IN [k \in 1..(m * n) |->
           LET c == ((k - 1) \div n) + 2
               r == ((k - 1) % n) + 1
           IN <<df.rows[r][1], df.columns[c], df.rows[r][c]>>]

\* sort_values(by=[id]): by subject id, rows of one id staying in their
\* order (numpy's quicksort is an insertion sort on arrays this short)
sort_values(rows) ==
    LET place(i) ==
            Cardinality({j \in 1..Len(rows) :
                \/ id_rank(rows[j][1]) < id_rank(rows[i][1])
                \/ id_rank(rows[j][1]) = id_rank(rows[i][1]) /\ j <= i})
    IN [k \in 1..Len(rows) |-> rows[CHOOSE i \in 1..Len(rows) : place(i) = k]]

\* the dtype of a column of a table made from its cells: bool when every
\* cell is a bool, float64 when every cell is NaN, object otherwise and
\* when the table has no rows.  dropna leaves it as it is.
column_dtype(df, k) ==
    IF df.rows = <<>> THEN "object"
    ELSE IF \A r \in 1..Len(df.rows) : df.rows[r][k].t = "bool" THEN "bool"
    ELSE IF \A r \in 1..Len(df.rows) : df.rows[r][k].t = "float" THEN "float64"
    ELSE "object"

\* the dtype of melt's 'answer' column: that of the value columns, all
\* but the first, when they have one dtype (float64 when there are none),
\* object when they differ
answer_dtype(df) ==
    LET dtypes == {column_dtype(df, k) : k \in 2..Len(df.columns)}
    IN IF dtypes = {} THEN "float64"
       ELSE IF Cardinality(dtypes) = 1 THEN CHOOSE d \in dtypes : TRUE
       ELSE "object"

\* the rows of a melted table whose answer is True
RECURSIVE answered(_)
answered(melted) ==
    IF melted = <<>>
    THEN <<>>
    ELSE (IF Head(melted)[3] = True THEN <<Head(melted)>> ELSE <<>>)
         \o answered(Tail(melted))

\* melted[melted["answer"]].drop('answer', axis=1): 'answer' is a mask when
\* it is bool or a non-empty object column of bools.  An empty 'answer'
\* that is not bool is read as an empty list of column names, the table is
\* left without columns and drop finds no 'answer'.  Gives [raised, rows].
keep_answered(melted, dtype) ==
    IF melted = <<>> /\ dtype # "bool"
    THEN [raised |-> "KeyError", rows |-> <<>>]
    ELSE [raised |-> "", rows |-> answered(melted)]

\* build_checkbox_df(df, id_vars, base_col_name, sep), id_vars one name.
\* Gives [raised, rows], the rows <<id, answer code>> of the long table.
build_checkbox_df(df, id_vars, base_col_name, sep) ==
    LET selected == <<position_of(df.columns, id_vars)>>
                    \o positions_from(df.columns,
                           {c \in Range(df.columns) : startswith(c, base_col_name)}, 1)
        checkbox_df == dropna(take_columns(df, selected))
        melted == sort_values(melt(checkbox_df))
        result == keep_answered(melted, answer_dtype(take_columns(df, selected)))
    IN [raised |-> result.raised,
        rows |-> [i \in 1..Len(result.rows) |->
                     LET parts == split(result.rows[i][2], sep)
                     IN <<result.rows[i][1], parts[Len(parts)]>>]]

SubId == <<"s", "u", "b", "i", "d">>

\* process_checkboxes(df, col_infos): the dict from field name to long
\* table, built field by field; a field whose table cannot be built ends
\* the call.  Gives [raised, dfs].
process_checkboxes(df, col_infos) ==
    LET infos == dict_values(col_infos)
        at == positions_from(infos, {c \in Range(infos) : c.field_type = "checkbox"}, 1)
        checkboxes == [k \in 1..Len(at) |-> infos[at[k]].name]
        built == [k \in 1..Len(checkboxes) |->
                     build_checkbox_df(df, SubId, checkboxes[k], Sep)]
    IN IF \E k \in 1..Len(built) : built[k].raised # ""
       THEN [raised |-> "KeyError", dfs |-> <<>>]
       ELSE [raised |-> "",
             dfs |-> dict_update(<<>>,
                        [k \in 1..Len(checkboxes) |-> <<checkboxes[k], built[k].rows>>])]

(***************************************************************************)
(* The inputs the entry points are called with.                            *)
(***************************************************************************)
FieldNames == {<<"q", "1">>, <<"q", "1", "0">>, <<"q", "2">>}

\* "1, R | 2, B"
TwoChoices == Str(<<"1", ",", " ", "R", " ", "|", " ", "2", ",", " ", "B">>)
\* "1, R | 2, R": two codes with one label
SameLabel == Str(<<"1", ",", " ", "R", " ", "|", " ", "2", ",", " ", "R">>)
\* "A, R|a, B": two codes that clean_key makes one
SameKey == Str(<<"A", ",", " ", "R", "|", "a", ",", " ", "B">>)
\* "-1, R<br><sup>x | 2,B,C": a hyphen, a footnote and a comma in a label
Footnoted == Str(<<"-", "1", ",", " ", "R">> \o FootnoteMarker
                 \o <<"x", " ", "|", " ", "2", ",", "B", ",", "C">>)
\* "R": no code
NoCode == Str(<<"R">>)
\* "1, R | B": the second choice has no code
HalfCoded == Str(<<"1", ",", " ", "R", " ", "|", " ", "B">>)
\* "": the empty string
Empty == Str(<<>>)

\* a code and a label with accented letters, and an em space before "2"
Accented == Str(<<"U+00C9", ",", " ", "S", "U+00ED", " ", "|",
                  "U+2003", "2", ",", " ", "B">>)
\* "1,<tab>R |<newline>2, B": a tab and a line feed around the separators
Tabbed == Str(<<"1", ",", "\t", "R", " ", "|", "\n", "2", ",", " ", "B">>)

\* the choices cells a dictionary column is tried with
ColumnChoiceCells == {NaN, TwoChoices, SameLabel, SameKey, HalfCoded, Tabbed,
                      Accented, Empty}

FieldTypeCells == {"radio", "dropdown", "checkbox", "yesno", "text", "calc",
                   "descriptive", "slider", nan}

ValidationKindCells == {"time", "alpha_only", "date_ymd", "date_mdy", "date_dmy",
                        "integer", "number", "number_1dp", "number_4dp", nan,
                        float_nan, "email"}

\* "5", "1.5", "N/A", "1-2-3", "1:30" and an empty cell
BoundCells == {NaN, Str(<<"5">>), Str(<<"1", ".", "5">>), Str(<<"N", "/", "A">>),
               Str(<<"1", "-", "2", "-", "3">>), Str(<<"1", ":", "3", "0">>)}

DictColumn(name, field_type, choices, kind, lo, hi) ==
    [name |-> name, form_name |-> "form", section_header |-> nan,
     field_type |-> field_type, field_label |-> "label", choices |-> choices,
     validation_kind |-> kind, validation_min |-> lo, validation_max |-> hi]

\* every dictionary column over the cells above, for one field name
AllColumns ==
    {DictColumn(<<"q", "1">>, ft, ch, k, lo, hi) :
        ft \in FieldTypeCells, ch \in ColumnChoiceCells, k \in ValidationKindCells,
        lo \in BoundCells, hi \in BoundCells}

\* the columns dictionary tables are made of
TableColumns ==
    {DictColumn(n, c[1], c[2], c[3], c[4], c[5]) :
        n \in FieldNames,
        c \in {<<"radio", TwoChoices, nan, NaN, NaN>>,
               <<"checkbox", SameLabel, nan, NaN, NaN>>,
               <<"yesno", NaN, nan, NaN, NaN>>,
               <<"text", NaN, "integer", Str(<<"5">>), Str(<<"N", "/", "A">>)>>,
               <<"calc", NoCode, nan, NaN, NaN>>,
               <<"descriptive", NaN, nan, NaN, NaN>>,
               <<"descriptive", NoCode, "email", NaN, NaN>>,
               <<"slider", NaN, nan, NaN, NaN>>,
               <<"text", NaN, "email", NaN, NaN>>,
               <<"text", NaN, float_nan, NaN, NaN>>,
               <<"dropdown", HalfCoded, nan, NaN, NaN>>}}

DictTables == UNION {[1..n -> TableColumns] : n \in 0..MaxRows}

\* the dictionary columns whose compiled columns are put to work
WorkedColumns ==
    {DictColumn(<<"q", "1">>, ft, ch, nan, NaN, NaN) :
        ft \in {"radio", "dropdown", "checkbox"},
        ch \in {TwoChoices, SameLabel, Footnoted}}
    \cup {DictColumn(<<"q", "1">>, "yesno", NaN, nan, NaN, NaN),
          DictColumn(<<"q", "1">>, "calc", NoCode, nan, NaN, NaN)}
    \cup {DictColumn(<<"q", "1">>, "text", NaN, k, NaN, NaN) :
             k \in {nan, "integer", "number"}}

ColumnInfos == {RedCapColumnInfo(c).info : c \in WorkedColumns}

\* the Column objects of a descriptor: its own, or a compound's input columns
columns_of(info) ==
    IF info.column_object.cls = "Column"
    THEN {info.column_object}
    ELSE Range(info.column_object.input_columns)

\* the row labels of a table of n rows: 0 to n-1 as read from a file, 1 to
\* n as left when a first row was dropped, and n-1 down to 0
Indexes(n) == {[i \in 1..n |-> i - 1], [i \in 1..n |-> i], [i \in 1..n |-> n - i]}

\* "0", "1", "2", "_1", "R", "abc", 0, 1, 2, True and a missing value, as
\* np.nan and as another NaN float
RawValues == {NaN, FloatNaN, Str(<<"0">>), Str(<<"1">>), Str(<<"2">>), Str(<<"_", "1">>),
              Str(<<"R">>), Str(<<"a", "b", "c">>),
              PyInt(<<"0">>), PyInt(<<"1">>), PyInt(<<"2">>), True}

RawSeries == UNION {[1..n -> RawValues] : n \in 0..MaxSeries}

CheckboxCells == {True, False, NaN}

\* the raw table the reshaper reads: subid, q1___1, q1___2, q10___1
RawColumns == <<SubId,
                <<"q", "1", "_", "_", "_", "1">>,
                <<"q", "1", "_", "_", "_", "2">>,
                <<"q", "1", "0", "_", "_", "_", "1">>>>

RawRows == {<<id, a, b, c>> : id \in Range(SubjectIds) \cup {NaN},
                             a \in CheckboxCells, b \in CheckboxCells,
                             c \in CheckboxCells}

RawTables ==
    {[columns |-> RawColumns, rows |-> rows] :
        rows \in UNION {[1..n -> RawRows] : n \in 0..MaxSubjects}}

\* the compiled schemas process_checkboxes is given
CheckboxSchemas ==
    {digest_ddict(d).schema :
        d \in {<<DictColumn(<<"q", "1">>, "checkbox", TwoChoices, nan, NaN, NaN)>>,
               <<DictColumn(<<"q", "1", "0">>, "checkbox", TwoChoices, nan, NaN, NaN),
                 DictColumn(<<"q", "2">>, "yesno", NaN, nan, NaN, NaN),
                 DictColumn(<<"q", "1">>, "checkbox", TwoChoices, nan, NaN, NaN)>>}}

\* the tables a compound column's transform is given: the field's input
\* columns, alone, beside the column of another field, or beside a column
\* of the field's prefix whose code the field does not declare
TransformTables(info) ==
    LET inputs == [i \in 1..Len(info.column_object.input_columns) |->
                      info.column_object.input_columns[i].name]
        other == <<"q", "1", "0", "_", "_", "_", "1">>
        undeclared == info.name \o Sep \o <<"3">>
        layouts == {inputs, inputs \o <<other>>, <<other>> \o inputs,
                    inputs \o <<undeclared>>}
    IN UNION {{[columns |-> cols, rows |-> rows] :
                  rows \in UNION {[1..n -> [1..Len(cols) -> CheckboxCells]] :
                                     n \in 0..MaxFrame}} :
              cols \in layouts}

(***************************************************************************)
(* The state machine: one call of an entry point.                          *)
(***************************************************************************)
Init ==
    /\ call = "idle"
    /\ arg = <<>>
    /\ ret = <<>>
    /\ log = <<>>

\* digest_ddict(ddict)
Digest ==
    /\ call = "idle"
    /\ \E ddict \in DictTables :
        LET out == digest_ddict(ddict)
        IN /\ call' = "digest_ddict"
           /\ arg' = ddict
           /\ ret' = [raised |-> out.raised, schema |-> out.schema]
           /\ log' = log \o out.warned

\* RedCapColumnInfo(ddict_col)
Construct ==
    /\ call = "idle"
    /\ \E ddict_col \in AllColumns :
        LET out == RedCapColumnInfo(ddict_col)
        IN /\ call' = "RedCapColumnInfo"
           /\ arg' = ddict_col
           /\ ret' = [raised |-> out.raised, info |-> out.info]
           /\ log' = log \o out.warned

\* translate_column(series), of a recoder of a compiled column
Translate ==
    /\ call = "idle"
    /\ \E info \in ColumnInfos, series \in RawSeries :
       \E col \in columns_of(info) :
       \E k \in 1..Len(col.recoders) :
        /\ col.recoders[k].fn \in ModelledRecoders
        /\ LET out == translate_column(col.recoders[k], series)
           IN /\ call' = "translate_column"
              /\ arg' = [column_info |-> info, recoder |-> col.recoders[k],
                         series |-> series]
              /\ ret' = [raised |-> out.raised, values |-> out.values]
              /\ log' = log

\* valid_values(series), of a validator of a compiled column
Validate ==
    /\ call = "idle"
    /\ \E info \in ColumnInfos, series \in RawSeries :
       \E col \in columns_of(info) :
       \E k \in 1..Len(col.validators) :
        /\ call' = "valid_values"
        /\ arg' = [column_info |-> info, validator |-> col.validators[k],
                   series |-> series]
        /\ ret' = [i \in 1..Len(series) |-> valid_values(col.validators[k], series[i])]
        /\ log' = log

\* the columns whose recoders and validators are all modelled
Diagnosable(col) ==
    /\ col.cls = "Column"
    /\ \A k \in 1..Len(col.recoders) : col.recoders[k].fn \in ModelledRecoders
    /\ \A k \in 1..Len(col.validators) :
          col.validators[k].fn \in {"radio_dropdown.valid_values", "yesno.valid_values"}

\* get_failed_values(df, col)
GetFailedValues ==
    /\ call = "idle"
    /\ \E info \in ColumnInfos, series \in RawSeries :
       \E index \in Indexes(Len(series)) :
        /\ Diagnosable(info.column_object)
        /\ call' = "get_failed_values"
        /\ arg' = [column_info |-> info, series |-> series, index |-> index]
        /\ ret' = get_failed_values([index |-> index, values |-> series],
                                    info.column_object)
        /\ log' = log

\* column_transform(df), of a compiled checkbox field
Transform ==
    /\ call = "idle"
    /\ \E info \in ColumnInfos :
        /\ info.column_object.cls = "CompoundColumn"
        /\ \E df \in TransformTables(info) :
            /\ call' = "column_transform"
            /\ arg' = [column_info |-> info, df |-> df]
            /\ ret' = transformation(info.column_object.column_transform.env, df)
            /\ log' = log

\* build_checkbox_df(df, "subid", base_col_name, "___")
BuildCheckboxDf ==
    /\ call = "idle"
    /\ \E df \in RawTables, base_col_name \in {<<"q", "1">>, <<"q", "1", "0">>} :
        /\ call' = "build_checkbox_df"
        /\ arg' = [df |-> df, base_col_name |-> base_col_name]
        /\ ret' = build_checkbox_df(df, SubId, base_col_name, Sep)
        /\ log' = log

\* process_checkboxes(df, col_infos)
ProcessCheckboxes ==
    /\ call = "idle"
    /\ \E df \in RawTables, col_infos \in CheckboxSchemas :
        /\ call' = "process_checkboxes"
        /\ arg' = [df |-> df, col_infos |-> col_infos]
        /\ ret' = process_checkboxes(df, col_infos)
        /\ log' = log

Next ==
    \/ Digest
    \/ Construct

\* compiling a dictionary
Spec == Init /\ [][Next]_vars

NextColumn ==
    \/ Translate
    \/ Validate
    \/ GetFailedValues
    \/ Transform

\* putting compiled columns to work
SpecColumn == Init /\ [][NextColumn]_vars

NextReshape ==
    \/ BuildCheckboxDf
    \/ ProcessCheckboxes

\* reshaping the checkbox columns of a raw table
SpecReshape == Init /\ [][NextReshape]_vars

(***************************************************************************)
(* What the claims say, in the terms of the dictionary alone.              *)
(***************************************************************************)
RecognizedFieldTypes == {"radio", "dropdown", "checkbox", "yesno", "text", "calc"}

\* an absent validation kind, however the cell holds it
AbsentKinds == {nan, float_nan}

\* the nine kinds, and none
RecognizedKinds == {"time", "alpha_only", "date_ymd", "date_mdy", "date_dmy",
                    "integer", "number", "number_1dp", "number_4dp"}
                   \cup AbsentKinds

\* a choices cell that is absent or has a choice without a comma
Unparsable(choices) ==
    \/ choices.t # "str"
    \/ \E piece \in Range(split(choices.v, <<"|">>)) : "," \notin Range(piece)

\* a dictionary column no descriptor can be built from
Uncompilable(col) ==
    \/ col.field_type \notin RecognizedFieldTypes
    \/ col.validation_kind \notin RecognizedKinds
    \/ col.field_type \in {"radio", "dropdown", "checkbox"} /\ Unparsable(col.choices)

\* the positions of the rows of a table that are not descriptive
DataRows(ddict) == {i \in 1..Len(ddict) : ddict[i].field_type # "descriptive"}

\* the k-th smallest element of a set of numbers
Nth(S, k) == CHOOSE i \in S : Cardinality({j \in S : j <= i}) = k

\* C1: when digest_ddict returns, the keys of the mapping are the names of
\* the rows that are not descriptive, in the order of the dictionary, and
\* each key maps to the descriptor built from its row; and it does return
\* when a descriptor can be built from each such row and no two of them
\* share a name.
C1_KeysAreDataRowsInOrder ==
    call = "digest_ddict" =>
        LET rows == DataRows(arg)
            compilable ==
                /\ \A i \in rows : RedCapColumnInfo(arg[i]).raised = ""
                /\ \A i, j \in rows : arg[i].name = arg[j].name => i = j
        IN /\ compilable => ret.raised = ""
           /\ ret.raised = "" =>
                /\ Len(ret.schema) = Cardinality(rows)
                /\ \A k \in 1..Len(ret.schema) :
                    /\ ret.schema[k][1] = arg[Nth(rows, k)].name
                    /\ ret.schema[k][2] = RedCapColumnInfo(arg[Nth(rows, k)]).info

\* a descriptive row before a data row: the schema has the data row alone
C1_Witness ==
    /\ call = "digest_ddict"
    /\ ret.raised = ""
    /\ Len(arg) = 2
    /\ arg[1].field_type = "descriptive"
    /\ arg[2].field_type = "checkbox"
    /\ dict_keys(ret.schema) = <<arg[2].name>>

\* C2: compilation fails and returns no schema, not even a partial one,
\* when some row that is not descriptive has an unrecognized field type or
\* validation kind, or is a radio, dropdown or checkbox row whose choices
\* are absent or unparsable; a text, calc or yesno row with absent or
\* unparsable choices compiles, its options_labels absent.
C2_FailsOnBadRowsOnly ==
    /\ call = "digest_ddict" =>
        /\ (\E i \in DataRows(arg) : Uncompilable(arg[i])) =>
              ret.raised # "" /\ ret.schema = <<>>
        /\ ret.raised = "" =>
              \A k \in 1..Len(ret.schema) :
                  LET info == ret.schema[k][2]
                  IN info.field_type \in {"text", "calc", "yesno"}
                     /\ Unparsable(arg[Nth(DataRows(arg), k)].choices)
                        => info.options_labels.none
    /\ call = "RedCapColumnInfo" =>
        /\ Uncompilable(arg) => ret.raised # ""
        /\ arg.field_type \in {"text", "calc", "yesno"}
           /\ arg.validation_kind \in RecognizedKinds
           /\ Unparsable(arg.choices)
           => ret.raised = "" /\ ret.info.options_labels.none
                              /\ ret.info.column_object.cls = "Column"

\* the names of a sequence of columns
Names(columns) == {columns[i].name : i \in 1..Len(columns)}

\* C4: a checkbox field's input column names are the field___code of the
\* codes of options_labels, its output column names the field___label of
\* the labels, and there are as many distinct input names, distinct output
\* names and entries of options_labels, also when two codes share a label.
C4_OneToOneNames ==
    (/\ call = "RedCapColumnInfo"
     /\ arg.field_type = "checkbox"
     /\ ret.raised = "") =>
        LET options == ret.info.options_labels.items
            inputs == Names(ret.info.column_object.input_columns)
            outputs == Names(ret.info.column_object.output_columns)
        IN /\ inputs = {arg.name \o Sep \o options[i][1].v : i \in 1..Len(options)}
           /\ outputs = {arg.name \o Sep \o options[i][2].v : i \in 1..Len(options)}
           /\ Cardinality(inputs) = Len(options)
           /\ Cardinality(outputs) = Len(options)

\* a value some cast of the kind's function accepts
Castable(func) == CHOOSE b \in BoundCells : ~recast_fails(func, b)

\* C6: for a recognized validation kind (an absent kind implies a string,
\* which every bound can be cast to), a bound that cannot be cast does
\* not abort the construction: the bound is kept as the string of the raw
\* value, one warning is emitted for it, and the construction ends as it
\* does, with the same column object, when both bounds can be cast.
C6_BoundFallsBackToString ==
    (call = "RedCapColumnInfo" /\ arg.validation_kind \in RecognizedKinds) =>
        LET func == IF arg.validation_kind \in AbsentKinds
                    THEN "as_string"
                    ELSE dict_get(cast_map, arg.validation_kind)
            bad_min == recast_fails(func, arg.validation_min)
            bad_max == recast_fails(func, arg.validation_max)
            castable == RedCapColumnInfo(
                [arg EXCEPT !.validation_min = Castable(func),
                            !.validation_max = Castable(func)])
        IN /\ ret.raised = castable.raised
           /\ ret.raised = "" =>
                /\ ret.info.column_object = castable.info.column_object
                /\ bad_min => ret.info.validation_min = [t |-> "str", v |-> arg.validation_min.v]
                /\ bad_max => ret.info.validation_max = [t |-> "str", v |-> arg.validation_max.v]
                /\ ~bad_min => ret.info.validation_min.t # "str" \/ func = "as_string"
                /\ ~bad_max => ret.info.validation_max.t # "str" \/ func = "as_string"
           /\ Len(log) = (IF bad_min THEN 1 ELSE 0) + (IF bad_max THEN 1 ELSE 0)
           /\ bad_min => log[1] = [value |-> arg.validation_min, func |-> func]
           /\ bad_max => log[Len(log)] = [value |-> arg.validation_max, func |-> func]

\* "N/A" as the minimum of a number: kept as the string, with a warning
C6_Witness ==
    /\ call = "RedCapColumnInfo"
    /\ arg.validation_kind = "number"
    /\ arg.field_type = "text"
    /\ arg.validation_min = Str(<<"N", "/", "A">>)
    /\ arg.validation_max = Str(<<"5">>)
    /\ ret.raised = ""
    /\ ret.info.validation_min = Str(<<"N", "/", "A">>)
    /\ ret.info.validation_max.t = "float"
    /\ Len(log) = 1

(***************************************************************************)
(* Recoders and validators.                                                *)
(***************************************************************************)
Zero == PyInt(<<"0">>)
One == PyInt(<<"1">>)

\* a missing raw value: a NaN float, np.nan or another
Missing == {NaN, FloatNaN}

\* what the claim has a recoder give for a raw value: [raised, value]
Translation(info, fn, x) ==
    CASE fn = "radio_dropdown.translate_column" ->
            LET options == info.options_labels.items
            IN IF \E i \in 1..Len(options) : options[i][1] = x
               THEN Returned(options[CHOOSE i \in 1..Len(options) : options[i][1] = x][2])
               ELSE IF x \in Missing THEN Returned(None) ELSE KeyError
      [] fn = "yesno.translate_column" ->
            IF x = Str(<<"0">>) THEN Returned(Str(<<"N", "O">>))
            ELSE IF x = Str(<<"1">>) THEN Returned(Str(<<"Y", "E", "S">>))
            ELSE IF x \in Missing THEN Returned(None) ELSE KeyError
      [] fn = "checkbox.translate_column" ->
            IF x \in {Zero, False} THEN Returned(False)
            ELSE IF x \in {One, True} THEN Returned(True)
            ELSE IF x \in Missing THEN Returned(NaN) ELSE KeyError

TranslatingRecoders == {"radio_dropdown.translate_column", "yesno.translate_column",
                        "checkbox.translate_column"}

\* C3: the recoder of a radio, dropdown, yesno or checkbox input column is
\* its translation mapping: a declared raw code gives its canonical value,
\* a missing raw value gives the canonical absent value, and any other raw
\* value raises a lookup fault that ends the recoding without a result.
C3_RecoderIsItsMapping ==
    (call = "translate_column" /\ arg.recoder.fn \in TranslatingRecoders) =>
        LET want == [i \in 1..Len(arg.series) |->
                        Translation(arg.column_info, arg.recoder.fn, arg.series[i])]
        IN IF \E i \in 1..Len(want) : want[i].raised # ""
           THEN ret.raised = "KeyError" /\ ret.values = <<>>
           ELSE /\ ret.raised = ""
                /\ Len(ret.values) = Len(want)
                /\ \A i \in 1..Len(want) : ret.values[i] = want[i].value

\* the option codes and labels of a descriptor
Codes(info) == Range(dict_keys(info.options_labels.items))
Labels(info) == Range(dict_values(info.options_labels.items))

\* C7, as claimed: the validator of a radio or dropdown field, applied to a
\* raw option code before any recoding, classifies the code as valid.
C7_ValidatorAcceptsRawCodes ==
    (/\ call = "valid_values"
     /\ arg.validator.fn = "radio_dropdown.valid_values") =>
        \A i \in 1..Len(arg.series) :
            arg.series[i] \in Codes(arg.column_info) => ret[i]

\* C7, amended: the validator of a radio or dropdown field accepts the
\* labels of the field's options and the absent value and nothing else, so
\* it accepts every value the recoder yields: in the diagnostic no raw
\* option code and no np.nan is reported as failing.
C7_ValidatorAcceptsRecodedCodes ==
    /\ (/\ call = "valid_values"
        /\ arg.validator.fn = "radio_dropdown.valid_values") =>
            \A i \in 1..Len(arg.series) :
                ret[i] <=> arg.series[i] \in Labels(arg.column_info) \cup {None}
    /\ (/\ call = "get_failed_values"
        /\ arg.column_info.field_type \in {"radio", "dropdown"}
        /\ \A i \in 1..Len(arg.series) :
              arg.series[i] \in Codes(arg.column_info) \cup {NaN}) =>
            ret.raised = "" /\ ret.failed = <<>>

\* both codes of "1, R | 2, B" pass the diagnostic
C7_Witness ==
    /\ call = "get_failed_values"
    /\ arg.column_info.field_type = "radio"
    /\ Codes(arg.column_info) = {Str(<<"1">>), Str(<<"2">>)}
    /\ arg.series = <<Str(<<"1">>), Str(<<"2">>)>>
    /\ ret.raised = ""
    /\ ret.failed = <<>>

\* the raw values every validator of a column accepts
Accepted(col, x) == \A i \in 1..Len(col.validators) : valid_values(col.validators[i], x)

\* C8: in get_failed_values validation precedes recoding: no recoder is
\* called on a value the column's validators classify as invalid, a recode
\* fault never comes of such a value, and when the run gives a result every
\* invalid raw value is among the failing rows it reports.
C8_ValidationPrecedesRecoding ==
    call = "get_failed_values" =>
        LET col == arg.column_info.column_object
        IN /\ \A k \in 1..Len(ret.calls) :
                 ret.calls[k].step = "recode" => Accepted(col, ret.calls[k].x)
           /\ ret.raised = "RecodingError" =>
                 Accepted(col, ret.calls[Len(ret.calls)].x)
           /\ ret.raised = "" =>
                 \A i \in 1..Len(arg.series) :
                     ~Accepted(col, arg.series[i]) =>
                         <<arg.index[i], arg.series[i]>> \in Range(ret.failed)

(***************************************************************************)
(* The compound transform.                                                 *)
(***************************************************************************)
\* C10: the transform of a checkbox field F gives the columns of the table
\* whose name starts with F___, in their order and with their values, each
\* named F___label for the label options_labels gives the column's code.
C10_TransformSelectsAndRenames ==
    call = "column_transform" =>
        LET info == arg.column_info
            prefix == info.name \o Sep
            at == {k \in 1..Len(arg.df.columns) : startswith(arg.df.columns[k], prefix)}
            code(k) == Str(SubSeq(arg.df.columns[k], Len(prefix) + 1, Len(arg.df.columns[k])))
        IN /\ Len(ret.columns) = Cardinality(at)
           /\ Len(ret.rows) = Len(arg.df.rows)
           /\ \A k \in 1..Len(ret.columns) :
                /\ code(Nth(at, k)) \in Codes(info)
                /\ ret.columns[k] =
                       prefix \o dict_get(info.options_labels.items, code(Nth(at, k))).v
                /\ \A r \in 1..Len(ret.rows) :
                       ret.rows[r][k] = arg.df.rows[r][Nth(at, k)]
           /\ Range(ret.columns) \subseteq
                  {prefix \o label.v : label \in Labels(info)}

(***************************************************************************)
(* The checkbox reshaper.                                                  *)
(***************************************************************************)
\* the columns of a table that are the option columns of field F
OptionColumns(df, F) ==
    {k \in 1..Len(df.columns) : startswith(df.columns[k], F \o Sep)}

IdColumn(df) == position_of(df.columns, SubId)

\* the subjects left when the rows with a missing cell, among the id and
\* the given columns, are dropped
Remaining(df, columns) ==
    {r \in 1..Len(df.rows) : \A k \in columns \cup {IdColumn(df)} : ~isna(df.rows[r][k])}

\* the true cells of field F's option columns, over the given subjects
TrueCells(df, F, subjects) ==
    {<<r, k>> \in subjects \X OptionColumns(df, F) : df.rows[r][k] = True}

\* C5: the long table of a field, when one is returned, has as many rows
\* as there are true cells in the field's option columns, over the subjects
\* that remain once the rows with a missing value are dropped (whether the
\* rows dropped are those the field's own columns call for or those the
\* selection made), and a subject with no selected option has no row.
C5_RowCountConserved ==
    call = "build_checkbox_df" =>
        LET F == arg.base_col_name
            own == Remaining(arg.df, OptionColumns(arg.df, F))
            selected == Remaining(arg.df,
                {k \in 1..Len(arg.df.columns) : startswith(arg.df.columns[k], F)})
        IN ret.raised = "" =>
              /\ \/ Len(ret.rows) = Cardinality(TrueCells(arg.df, F, own))
                 \/ Len(ret.rows) = Cardinality(TrueCells(arg.df, F, selected))
              /\ \A i \in 1..Len(ret.rows) :
                    \E c \in TrueCells(arg.df, F, 1..Len(arg.df.rows)) :
                        arg.df.rows[c[1]][IdColumn(arg.df)] = ret.rows[i][1]

\* a table without the columns of the fields other than F
OnlyField(df, F) ==
    take_columns(df, positions_from(df.columns,
        {SubId} \cup {c \in Range(df.columns) : startswith(c, F \o Sep)}, 1))

\* C9: the long table of field F is the one the table gives once the
\* columns of every other field are taken out of it: they influence neither
\* the subjects dropped nor the rows of the long table.
C9_OtherFieldsDoNotInterfere ==
    /\ call = "build_checkbox_df" =>
          ret = build_checkbox_df(OnlyField(arg.df, arg.base_col_name),
                                  SubId, arg.base_col_name, Sep)
    /\ call = "process_checkboxes" =>
          \A k \in 1..Len(arg.col_infos) :
              arg.col_infos[k][2].field_type = "checkbox" =>
                  LET F == arg.col_infos[k][1]
                      alone == build_checkbox_df(OnlyField(arg.df, F), SubId, F, Sep)
                  IN ret.raised = "" =>
                        /\ alone.raised = ""
                        /\ dict_get(ret.dfs, F) = alone.rows

====
